---------------------------- MODULE Spec2Model ----------------------------
(***************************************************************************)
(* Model of the pricing store (src/contexts/AdminContext.tsx) and of the   *)
(* fare estimator of the booking form (src/components/MumbaiLocalBooking). *)
(*                                                                         *)
(* The pricing store is a React provider: `admin` and `pricing` are its    *)
(* state, localStorage is the browser's key-value store, and every remote  *)
(* operation is an async handler that runs up to its `await`, is settled   *)
(* by the remote table store, and is resumed later.  Handlers of several   *)
(* calls interleave at their awaits.                                       *)
(***************************************************************************)
EXTENDS Integers, Sequences, FiniteSets, Bags, TLC

(***************************************************************************)
(* Bounds of the model.                                                    *)
(***************************************************************************)
MaxCalls == 3        \* remote requests that may be in flight together
MaxOps == 2          \* handler calls made after the provider first mounted
MaxId == 4           \* row ids the remote store can hand out
MaxRouteCalls == 2   \* distance requests that may be in flight together
MaxSubmits == 1      \* submits of the booking form that pass its validation

(***************************************************************************)
(* Input domains.                                                          *)
(***************************************************************************)
NameOrder == <<"Nashik", "Pune">>          \* city names, in collation order
Names == {NameOrder[i] : i \in 1..Len(NameOrder)}
RoutePairs == {<<"Nashik", "Pune">>, <<"Pune", "Nashik">>}
Fares == {<<2500, 3500>>, <<2700, 3900>>}  \* (price_4_seater, price_6_seater)
Usernames == {"admin", "root"}
Passwords == {"admin123", "letmein"}

(***************************************************************************)
(* Values.                                                                 *)
(***************************************************************************)
Null == [null |-> TRUE]                    \* JavaScript null / absent

NoError == "none"                          \* { error: null }
Conflict == "23505"                        \* unique-constraint violation
NoRows == "PGRST116"                       \* .single() matched no row
Failure == "failure"                       \* network / server error
Errors == {Conflict, NoRows, Failure}

City(id, name) == [id |-> id, name |-> name]

Route(id, from, to, p4, p6) ==
  [id |-> id, from_city |-> from, to_city |-> to,
   price_4_seater |-> p4, price_6_seater |-> p6]

LocalFare(n4, n6, a4, a6) ==
  [id |-> 1, service_area |-> "Mumbai Local",
   normal_4_seater_rate_per_km |-> n4, normal_6_seater_rate_per_km |-> n6,
   airport_4_seater_rate_per_km |-> a4, airport_6_seater_rate_per_km |-> a6]

PricingConfig(mumbaiLocal, cities, routes) ==
  [mumbaiLocal |-> mumbaiLocal, cities |-> cities, routes |-> routes]

defaultPricing == PricingConfig(Null, <<>>, <<>>)

adminUser == [id |-> "admin", username |-> "Administrator", isAuthenticated |-> TRUE]

RateRows == {LocalFare(15, 18, 18, 22), LocalFare(15, 20, 18, 25)}

VARIABLES
  admin,          \* useState<Admin | null>
  pricing,        \* useState<PricingConfig>
  lsAdmin,        \* localStorage['Saffari_admin']
  lsPricing,      \* localStorage['Saffari_mumbai_pricing']
  dbCities,       \* remote table cities
  dbRoutes,       \* remote table routes
  dbLocal,        \* remote table local_fares, row of 'Mumbai Local'
  nextId,         \* next row id the remote store hands out
  calls,          \* bag of the async handlers suspended at an await
  last,           \* what the handler that ran in the last step did
  fetchedLocal,   \* a fetchLocalFares has succeeded since the provider mounted
  fetchedTables,  \* a fetchCitiesAndRoutes has succeeded since the provider mounted
  ops,            \* handler calls made so far
  booking,        \* booking form: useState({...})
  pickupCoords,   \* useState(null)
  dropCoords,     \* useState(null)
  distance,       \* useState(0), in 1/100 km
  duration,       \* useState(0), in minutes
  isCalculating,  \* useState(false)
  formPricing,    \* the pricing the form gets from useAdmin()
  mumbaiLocalRates, \* useState(null)
  routeCalls,     \* bag of the calculateRouteDetails runs suspended at an await
  fareDetails,    \* const fareDetails = getFare() of the current render
  saveCalls,      \* bag of the saveBookingToDatabase runs suspended at an await
  dbBookings,     \* rows of the remote table bookings
  opened,         \* window.open calls made: hand-offs to the messaging link
  formLast        \* what the form handler that ran in the last step did

storeVars == <<admin, pricing, lsAdmin, lsPricing, dbCities, dbRoutes, dbLocal,
               nextId, calls, last, fetchedLocal, fetchedTables, ops>>
formVars == <<booking, pickupCoords, dropCoords, distance, duration, isCalculating,
              formPricing, mumbaiLocalRates, routeCalls, fareDetails,
              saveCalls, dbBookings, opened, formLast>>
vars == <<storeVars, formVars>>

(***************************************************************************)
(* Async calls.  A call is the closure of a suspended handler: its         *)
(* arguments, the request it awaits and, once settled, the {data, error}   *)
(* of the response.                                                        *)
(***************************************************************************)
Call(op) ==
  [op |-> op, stage |-> "sent", table |-> "", name |-> "", id |-> 0,
   from_city |-> "", to_city |-> "", price_4_seater |-> 0, price_6_seater |-> 0,
   error |-> NoError, cities |-> <<>>, data |-> <<>>]

Settled(c, error, data) == [c EXCEPT !.stage = "settled", !.error = error, !.data = data]

InFlight == BagToSet(calls)

Put(c) == calls (+) SetToBag({c})
Take(c) == calls (-) SetToBag({c})
Swap(c, d) == (calls (-) SetToBag({c})) (+) SetToBag({d})

Toast(kind, message) == <<kind, message>>

\* What a handler run did: the call it belonged to, how it ended ("true",
\* "false", "void" for a handler without result, "throw" for an exception that
\* reached the caller, "pending" while it awaits) and the toasts it raised.
Event(c, ret, toasts) == [call |-> c, ret |-> ret, toasts |-> toasts]
NoEvent == Event(Call("none"), "pending", <<>>)

(***************************************************************************)
(* .order('name') and .order('from_city, to_city') of the remote selects.  *)
(***************************************************************************)
NameRank(n) == CHOOSE i \in 1..Len(NameOrder) : NameOrder[i] = n

CityBefore(c, d) ==
  \/ NameRank(c.name) < NameRank(d.name)
  \/ c.name = d.name /\ c.id <= d.id

RouteBefore(r, s) ==
  \/ NameRank(r.from_city) < NameRank(s.from_city)
  \/ r.from_city = s.from_city /\ NameRank(r.to_city) < NameRank(s.to_city)
  \/ r.from_city = s.from_city /\ r.to_city = s.to_city /\ r.id <= s.id

RECURSIVE OrderCities(_)
OrderCities(S) ==
  IF S = {} THEN <<>>
  ELSE LET m == CHOOSE c \in S : \A d \in S : CityBefore(c, d)
       IN <<m>> \o OrderCities(S \ {m})

RECURSIVE OrderRoutes(_)
OrderRoutes(S) ==
  IF S = {} THEN <<>>
  ELSE LET m == CHOOSE r \in S : \A s \in S : RouteBefore(r, s)
       IN <<m>> \o OrderRoutes(S \ {m})

(***************************************************************************)
(* The remote table store.  Each request in flight is settled once, either *)
(* by executing it or by failing it (network or server error).             *)
(***************************************************************************)
Sent(c, op, table) == c.stage = "sent" /\ c.op = op /\ c.table = table

RemoteUnchanged ==
  UNCHANGED <<admin, pricing, lsAdmin, lsPricing, fetchedLocal, fetchedTables, ops, formVars>>

RemoteFail(c) ==
  /\ c.stage = "sent"
  /\ calls' = Swap(c, Settled(c, Failure, <<>>))
  /\ last' = NoEvent
  /\ UNCHANGED <<dbCities, dbRoutes, dbLocal, nextId>>
  /\ RemoteUnchanged

RemoteSelectCities(c) ==
  /\ Sent(c, "fetchCitiesAndRoutes", "cities")
  /\ calls' = Swap(c, Settled(c, NoError, OrderCities(dbCities)))
  /\ last' = NoEvent
  /\ UNCHANGED <<dbCities, dbRoutes, dbLocal, nextId>>
  /\ RemoteUnchanged

RemoteSelectRoutes(c) ==
  /\ Sent(c, "fetchCitiesAndRoutes", "routes")
  /\ calls' = Swap(c, Settled(c, NoError, OrderRoutes(dbRoutes)))
  /\ last' = NoEvent
  /\ UNCHANGED <<dbCities, dbRoutes, dbLocal, nextId>>
  /\ RemoteUnchanged

RemoteSelectLocalFare(c) ==
  /\ Sent(c, "fetchLocalFares", "local_fares")
  /\ calls' = Swap(c, IF dbLocal = Null THEN Settled(c, NoRows, <<>>)
                                        ELSE Settled(c, NoError, <<dbLocal>>))
  /\ last' = NoEvent
  /\ UNCHANGED <<dbCities, dbRoutes, dbLocal, nextId>>
  /\ RemoteUnchanged

RemoteInsertCity(c) ==
  /\ Sent(c, "addCity", "cities")
  /\ IF \E r \in dbCities : r.name = c.name
       THEN /\ calls' = Swap(c, Settled(c, Conflict, <<>>))
            /\ UNCHANGED <<dbCities, nextId>>
       ELSE /\ nextId <= MaxId
            /\ dbCities' = dbCities \cup {City(nextId, c.name)}
            /\ nextId' = nextId + 1
            /\ calls' = Swap(c, Settled(c, NoError, <<City(nextId, c.name)>>))
  /\ last' = NoEvent
  /\ UNCHANGED <<dbRoutes, dbLocal>>
  /\ RemoteUnchanged

RemoteDeleteCity(c) ==
  /\ Sent(c, "removeCity", "cities")
  /\ dbCities' = {r \in dbCities : r.id # c.id}
  /\ calls' = Swap(c, Settled(c, NoError, <<>>))
  /\ last' = NoEvent
  /\ UNCHANGED <<dbRoutes, dbLocal, nextId>>
  /\ RemoteUnchanged

RemoteInsertRoute(c) ==
  /\ Sent(c, "addRoute", "routes")
  /\ IF \E r \in dbRoutes : r.from_city = c.from_city /\ r.to_city = c.to_city
       THEN /\ calls' = Swap(c, Settled(c, Conflict, <<>>))
            /\ UNCHANGED <<dbRoutes, nextId>>
       ELSE LET row == Route(nextId, c.from_city, c.to_city,
                             c.price_4_seater, c.price_6_seater)
            IN /\ nextId <= MaxId
               /\ dbRoutes' = dbRoutes \cup {row}
               /\ nextId' = nextId + 1
               /\ calls' = Swap(c, Settled(c, NoError, <<row>>))
  /\ last' = NoEvent
  /\ UNCHANGED <<dbCities, dbLocal>>
  /\ RemoteUnchanged

RemoteUpdateRoute(c) ==
  /\ Sent(c, "updateRoute", "routes")
  /\ IF \E r \in dbRoutes : r.id = c.id
       THEN LET old == CHOOSE r \in dbRoutes : r.id = c.id
                row == [old EXCEPT !.price_4_seater = c.price_4_seater,
                                   !.price_6_seater = c.price_6_seater]
            IN /\ dbRoutes' = (dbRoutes \ {old}) \cup {row}
               /\ calls' = Swap(c, Settled(c, NoError, <<row>>))
       ELSE /\ calls' = Swap(c, Settled(c, NoRows, <<>>))
            /\ UNCHANGED dbRoutes
  /\ last' = NoEvent
  /\ UNCHANGED <<dbCities, dbLocal, nextId>>
  /\ RemoteUnchanged

RemoteDeleteRoute(c) ==
  /\ Sent(c, "deleteRoute", "routes")
  /\ dbRoutes' = {r \in dbRoutes : r.id # c.id}
  /\ calls' = Swap(c, Settled(c, NoError, <<>>))
  /\ last' = NoEvent
  /\ UNCHANGED <<dbCities, dbLocal, nextId>>
  /\ RemoteUnchanged

(***************************************************************************)
(* The provider's handlers.  For an async handler, `h(args)` is the run up *)
(* to the await, `h_settled(prev, c)` is the code after the await as a     *)
(* function of the state `prev` the setPricing updater receives and of the *)
(* settled call, and `h_resume(c)` is the step that runs it.               *)
(***************************************************************************)
Result(p, ret, toasts) == [pricing |-> p, ret |-> ret, toasts |-> toasts]

Keep(s, Test(_)) == SelectSeq(s, Test)

CanCall == BagCardinality(calls) < MaxCalls

\* A handler is called from the UI.
Invoked == ops < MaxOps /\ ops' = ops + 1

Resumable(c, op) == c.stage = "settled" /\ c.op = op

HandlerUnchanged == UNCHANGED <<dbCities, dbRoutes, dbLocal, nextId, formVars>>

\* Runs `h_settled` for the call c, which thereby completes.
Complete(c, r) ==
  /\ pricing' = r.pricing
  /\ calls' = Take(c)
  /\ last' = Event(c, r.ret, r.toasts)
  /\ UNCHANGED ops

fetchCitiesAndRoutes ==
  /\ CanCall /\ Invoked
  /\ calls' = Put([Call("fetchCitiesAndRoutes") EXCEPT !.table = "cities"])
  /\ last' = NoEvent
  /\ UNCHANGED <<admin, pricing, lsAdmin, lsPricing, fetchedLocal, fetchedTables>>
  /\ HandlerUnchanged

fetchCitiesAndRoutes_catch(prev) ==
  Result(prev, "void", <<Toast("error", "Failed to load cities and routes")>>)

\* after the first await: `if (citiesError) throw citiesError`, else the
\* routes select is sent and the handler awaits again
fetchCitiesAndRoutes_resume_cities(c) ==
  /\ Resumable(c, "fetchCitiesAndRoutes") /\ c.table = "cities"
  /\ IF c.error # NoError
       THEN Complete(c, fetchCitiesAndRoutes_catch(pricing))
       ELSE /\ calls' = Swap(c, [Call("fetchCitiesAndRoutes") EXCEPT
                                   !.table = "routes", !.cities = c.data])
            /\ last' = NoEvent
            /\ UNCHANGED <<pricing, ops>>
  /\ UNCHANGED <<admin, lsAdmin, lsPricing, fetchedLocal, fetchedTables>>
  /\ HandlerUnchanged

\* a load that writes only while nothing has been written yet
fetchCitiesAndRoutes_settled_guarded(prev, c) ==
  IF c.error # NoError
    THEN fetchCitiesAndRoutes_catch(prev)
    ELSE IF prev.cities = <<>> /\ prev.routes = <<>>
           THEN Result([prev EXCEPT !.cities = c.cities, !.routes = c.data], "void", <<>>)
           ELSE Result(prev, "void", <<>>)

fetchCitiesAndRoutes_settled(prev, c) ==
  IF c.error # NoError
    THEN fetchCitiesAndRoutes_catch(prev)
    ELSE Result([prev EXCEPT !.cities = c.cities, !.routes = c.data], "void", <<>>)

fetchCitiesAndRoutes_resume(c) ==
  /\ Resumable(c, "fetchCitiesAndRoutes") /\ c.table = "routes"
  /\ Complete(c, fetchCitiesAndRoutes_settled(pricing, c))
  /\ UNCHANGED <<admin, lsAdmin, lsPricing, fetchedLocal>>
  /\ fetchedTables' = (fetchedTables \/ c.error = NoError)
  /\ HandlerUnchanged

fetchLocalFares ==
  /\ CanCall /\ Invoked
  /\ calls' = Put([Call("fetchLocalFares") EXCEPT !.table = "local_fares"])
  /\ last' = NoEvent
  /\ UNCHANGED <<admin, pricing, lsAdmin, lsPricing, fetchedLocal, fetchedTables>>
  /\ HandlerUnchanged

\* a fetchLocalFares that spreads the pricing of the render that started it
fetchLocalFares_settled_closure(prev, c) ==
  IF c.error # NoError
    THEN Result(prev, "void", <<Toast("error", "Failed to load local fares")>>)
    ELSE Result([defaultPricing EXCEPT !.mumbaiLocal = c.data[1]], "void", <<>>)

fetchLocalFares_settled(prev, c) ==
  IF c.error # NoError
    THEN Result(prev, "void", <<Toast("error", "Failed to load local fares")>>)
    ELSE Result([prev EXCEPT !.mumbaiLocal = c.data[1]], "void", <<>>)

fetchLocalFares_resume(c) ==
  /\ Resumable(c, "fetchLocalFares")
  /\ Complete(c, fetchLocalFares_settled(pricing, c))
  /\ fetchedLocal' = (fetchedLocal \/ c.error = NoError)
  /\ UNCHANGED fetchedTables
  /\ UNCHANGED <<admin, lsAdmin, lsPricing>>
  /\ HandlerUnchanged

\* useEffect(..., []) of AdminProvider, run on a fresh provider: a page load.
\* The state of the previous page and its suspended handlers are gone;
\* localStorage and the remote store stay.
\* a page load that does not read the stored session
Mounted_noRestore(savedAdmin) ==
  /\ admin' = Null
  /\ pricing' = defaultPricing
  /\ calls' = SetToBag({[Call("fetchCitiesAndRoutes") EXCEPT !.table = "cities"]})
                (+) SetToBag({[Call("fetchLocalFares") EXCEPT !.table = "local_fares"]})
  /\ fetchedLocal' = FALSE
  /\ fetchedTables' = FALSE

Mounted(savedAdmin) ==
  /\ admin' = savedAdmin
  /\ pricing' = defaultPricing
  /\ calls' = SetToBag({[Call("fetchCitiesAndRoutes") EXCEPT !.table = "cities"]})
                (+) SetToBag({[Call("fetchLocalFares") EXCEPT !.table = "local_fares"]})
  /\ fetchedLocal' = FALSE
  /\ fetchedTables' = FALSE

Mount ==
  /\ Invoked
  /\ Mounted(lsAdmin)
  /\ last' = Event(Call("mount"), "void", <<>>)
  /\ UNCHANGED <<lsAdmin, lsPricing>>
  /\ HandlerUnchanged

\* a login that compares the username only
login_result_usernameOnly(username, password) ==
  IF username = "admin"
    THEN [success |-> TRUE, error |-> "", admin |-> <<adminUser>>]
    ELSE [success |-> FALSE, error |-> "Invalid admin credentials", admin |-> <<>>]

login_result(username, password) ==
  IF username = "admin" /\ password = "admin123"
    THEN [success |-> TRUE, error |-> "", admin |-> <<adminUser>>]
    ELSE [success |-> FALSE, error |-> "Invalid admin credentials", admin |-> <<>>]

login(username, password) ==
  LET r == login_result(username, password) IN
  /\ Invoked
  /\ IF r.success
       THEN admin' = r.admin[1] /\ lsAdmin' = r.admin[1]
       ELSE UNCHANGED <<admin, lsAdmin>>
  /\ last' = Event([Call("login") EXCEPT !.name = username, !.data = <<password>>,
                                          !.error = r.error],
                   IF r.success THEN "true" ELSE "false", <<>>)
  /\ UNCHANGED <<pricing, lsPricing, calls, fetchedLocal, fetchedTables>>
  /\ HandlerUnchanged

logout ==
  /\ Invoked
  /\ admin' = Null
  /\ lsAdmin' = Null
  /\ last' = Event(Call("logout"), "void", <<>>)
  /\ UNCHANGED <<pricing, lsPricing, calls, fetchedLocal, fetchedTables>>
  /\ HandlerUnchanged

\* The caller passes the pricing it rendered with the local-rate row replaced.
updatePricing(newPricing) ==
  /\ Invoked
  /\ pricing' = newPricing
  /\ lsPricing' = newPricing
  /\ last' = Event(Call("updatePricing"), "void", <<>>)
  /\ UNCHANGED <<admin, lsAdmin, calls, fetchedLocal, fetchedTables>>
  /\ HandlerUnchanged

(***************************************************************************)
(* City and route mutations.                                               *)
(***************************************************************************)
MutationUnchanged == UNCHANGED <<admin, lsAdmin, lsPricing, fetchedLocal, fetchedTables>>

Begin(c) ==
  /\ calls' = Put(c)
  /\ last' = NoEvent
  /\ UNCHANGED pricing
  /\ MutationUnchanged
  /\ HandlerUnchanged

Resume(c, r) ==
  /\ Complete(c, r)
  /\ MutationUnchanged
  /\ HandlerUnchanged

addCity(cityName) ==
  /\ CanCall /\ Invoked
  /\ Begin([Call("addCity") EXCEPT !.table = "cities", !.name = cityName])

\* addCity without the check of error.code
addCity_settled_generic(prev, c) ==
  IF c.error = NoError
    THEN Result([prev EXCEPT !.cities = Append(@, c.data[1])], "true",
                <<Toast("success", "City added successfully")>>)
    ELSE Result(prev, "false", <<Toast("error", "Failed to add city")>>)

addCity_settled(prev, c) ==
  IF c.error = NoError
    THEN Result([prev EXCEPT !.cities = Append(@, c.data[1])], "true",
                <<Toast("success", "City added successfully")>>)
    ELSE Result(prev, "false",
                IF c.error = Conflict
                  THEN <<Toast("error", "City already exists")>>
                  ELSE <<Toast("error", "Failed to add city")>>)

addCity_resume(c) ==
  /\ Resumable(c, "addCity")
  /\ Resume(c, addCity_settled(pricing, c))

removeCity(cityId) ==
  /\ CanCall /\ Invoked
  /\ Begin([Call("removeCity") EXCEPT !.table = "cities", !.id = cityId])

\* removeCity with the local removal done whatever the remote delete answered
removeCity_settled_optimistic(prev, c) ==
  Result([prev EXCEPT !.cities = Keep(@, LAMBDA x : x.id # c.id)],
         IF c.error = NoError THEN "true" ELSE "false",
         IF c.error = NoError
           THEN <<Toast("success", "City removed successfully")>>
           ELSE <<Toast("error", "Failed to remove city")>>)

removeCity_settled(prev, c) ==
  IF c.error = NoError
    THEN Result([prev EXCEPT !.cities = Keep(@, LAMBDA x : x.id # c.id)], "true",
                <<Toast("success", "City removed successfully")>>)
    ELSE Result(prev, "false", <<Toast("error", "Failed to remove city")>>)

removeCity_resume(c) ==
  /\ Resumable(c, "removeCity")
  /\ Resume(c, removeCity_settled(pricing, c))

addRoute(fromCity, toCity, fourSeaterPrice, sixSeaterPrice) ==
  /\ CanCall /\ Invoked
  /\ Begin([Call("addRoute") EXCEPT !.table = "routes",
             !.from_city = fromCity, !.to_city = toCity,
             !.price_4_seater = fourSeaterPrice, !.price_6_seater = sixSeaterPrice])

\* addRoute putting the new route first
addRoute_settled_prepend(prev, c) ==
  IF c.error = NoError
    THEN Result([prev EXCEPT !.routes = <<c.data[1]>> \o @], "true",
                <<Toast("success", "Route added successfully")>>)
    ELSE Result(prev, "false",
                IF c.error = Conflict
                  THEN <<Toast("error", "Route already exists")>>
                  ELSE <<Toast("error", "Failed to add route")>>)

addRoute_settled(prev, c) ==
  IF c.error = NoError
    THEN Result([prev EXCEPT !.routes = Append(@, c.data[1])], "true",
                <<Toast("success", "Route added successfully")>>)
    ELSE Result(prev, "false",
                IF c.error = Conflict
                  THEN <<Toast("error", "Route already exists")>>
                  ELSE <<Toast("error", "Failed to add route")>>)

addRoute_resume(c) ==
  /\ Resumable(c, "addRoute")
  /\ Resume(c, addRoute_settled(pricing, c))

updateRoute(routeId, fourSeaterPrice, sixSeaterPrice) ==
  /\ CanCall /\ Invoked
  /\ Begin([Call("updateRoute") EXCEPT !.table = "routes", !.id = routeId,
             !.price_4_seater = fourSeaterPrice, !.price_6_seater = sixSeaterPrice])

\* updateRoute with the test of the map inverted
updateRoute_settled_inverted(prev, c) ==
  IF c.error = NoError
    THEN Result([prev EXCEPT !.routes =
                   [i \in DOMAIN @ |-> IF @[i].id # c.id THEN c.data[1] ELSE @[i]]],
                "true", <<Toast("success", "Route updated successfully")>>)
    ELSE Result(prev, "false", <<Toast("error", "Failed to update route")>>)

updateRoute_settled(prev, c) ==
  IF c.error = NoError
    THEN Result([prev EXCEPT !.routes =
                   [i \in DOMAIN @ |-> IF @[i].id = c.id THEN c.data[1] ELSE @[i]]],
                "true", <<Toast("success", "Route updated successfully")>>)
    ELSE Result(prev, "false", <<Toast("error", "Failed to update route")>>)

updateRoute_resume(c) ==
  /\ Resumable(c, "updateRoute")
  /\ Resume(c, updateRoute_settled(pricing, c))

deleteRoute(routeId) ==
  /\ CanCall /\ Invoked
  /\ Begin([Call("deleteRoute") EXCEPT !.table = "routes", !.id = routeId])

\* deleteRoute reporting success from its catch block
deleteRoute_settled_silent(prev, c) ==
  IF c.error = NoError
    THEN Result([prev EXCEPT !.routes = Keep(@, LAMBDA x : x.id # c.id)], "true",
                <<Toast("success", "Route deleted successfully")>>)
    ELSE Result(prev, "true", <<>>)

\* deleteRoute removing the route before looking at the error
deleteRoute_settled_optimistic(prev, c) ==
  Result([prev EXCEPT !.routes = Keep(@, LAMBDA x : x.id # c.id)],
         IF c.error = NoError THEN "true" ELSE "false",
         IF c.error = NoError
           THEN <<Toast("success", "Route deleted successfully")>>
           ELSE <<Toast("error", "Failed to delete route")>>)

deleteRoute_settled(prev, c) ==
  IF c.error = NoError
    THEN Result([prev EXCEPT !.routes = Keep(@, LAMBDA x : x.id # c.id)], "true",
                <<Toast("success", "Route deleted successfully")>>)
    ELSE Result(prev, "false", <<Toast("error", "Failed to delete route")>>)

deleteRoute_resume(c) ==
  /\ Resumable(c, "deleteRoute")
  /\ Resume(c, deleteRoute_settled(pricing, c))


(***************************************************************************)
(* The booking form (MumbaiLocalBooking).  Distances are in 1/100 km, the  *)
(* precision calculateStraightLineDistance rounds to; rates are rupees per *)
(* km.                                                                     *)
(***************************************************************************)
Places == {"Andheri", "Airport"}

Coordinates(place) ==
  CASE place = "Andheri" -> [lat |-> 191136, lng |-> 728697]
    [] place = "Airport" -> [lat |-> 190896, lng |-> 728656]

\* what the distance service may answer: km * 100 and minutes
ApiResults == {[distance |-> 500, duration |-> 15],
               [distance |-> 667, duration |-> 20],
               [distance |-> 4000, duration |-> 75]}

TripTypes == {"normal", "airport"}
CarTypes == {"4-seater", "6-seater"}

\* Math.round(num / den) for num >= 0, den > 0: halves round up
MathRound(num, den) == (2 * num + den) \div (2 * den)

\* The haversine distance of the coordinate pairs of the model, as
\* Math.round(R * c * 100) / 100 with R = 6371 gives it.
calculateStraightLineDistance(pickup, drop) ==
  IF pickup = drop THEN 0 ELSE 270

\* getFare without the minimum-fare floor
getFare_unclamped(dist, rates, trip, car) ==
  IF dist = 0 \/ rates = Null THEN Null
  ELSE LET ratePerKm ==
             IF trip = "airport"
               THEN IF car = "4-seater" THEN rates.airport_4_seater_rate_per_km
                                        ELSE rates.airport_6_seater_rate_per_km
               ELSE IF car = "4-seater" THEN rates.normal_4_seater_rate_per_km
                                        ELSE rates.normal_6_seater_rate_per_km
           totalFare == MathRound(dist * ratePerKm, 100)
       IN [ratePerKm |-> ratePerKm, total |-> totalFare,
           isMinimumFare |-> totalFare < 100]

\* getFare with the airport 4-seater and the normal 6-seater rates exchanged
getFare_swapped(dist, rates, trip, car) ==
  IF dist = 0 \/ rates = Null THEN Null
  ELSE LET ratePerKm ==
             IF trip = "airport"
               THEN IF car = "4-seater" THEN rates.normal_6_seater_rate_per_km
                                        ELSE rates.airport_6_seater_rate_per_km
               ELSE IF car = "4-seater" THEN rates.normal_4_seater_rate_per_km
                                        ELSE rates.airport_4_seater_rate_per_km
           totalFare == MathRound(dist * ratePerKm, 100)
           isMinimumFare == totalFare < 100
       IN [ratePerKm |-> ratePerKm,
           total |-> IF isMinimumFare THEN 100 ELSE totalFare,
           isMinimumFare |-> isMinimumFare]

\* getFare giving no fare where the minimum fare applies
getFare_noneBelowMinimum(dist, rates, trip, car) ==
  IF dist = 0 \/ rates = Null THEN Null
  ELSE LET ratePerKm ==
             IF trip = "airport"
               THEN IF car = "4-seater" THEN rates.airport_4_seater_rate_per_km
                                        ELSE rates.airport_6_seater_rate_per_km
               ELSE IF car = "4-seater" THEN rates.normal_4_seater_rate_per_km
                                        ELSE rates.normal_6_seater_rate_per_km
           totalFare == MathRound(dist * ratePerKm, 100)
       IN IF totalFare < 100 THEN Null
          ELSE [ratePerKm |-> ratePerKm, total |-> totalFare, isMinimumFare |-> FALSE]

getFare(dist, rates, trip, car) ==
  IF dist = 0 \/ rates = Null THEN Null
  ELSE LET ratePerKm ==
             IF trip = "airport"
               THEN IF car = "4-seater" THEN rates.airport_4_seater_rate_per_km
                                        ELSE rates.airport_6_seater_rate_per_km
               ELSE IF car = "4-seater" THEN rates.normal_4_seater_rate_per_km
                                        ELSE rates.normal_6_seater_rate_per_km
           totalFare == MathRound(dist * ratePerKm, 100)
           isMinimumFare == totalFare < 100
       IN [ratePerKm |-> ratePerKm,
           total |-> IF isMinimumFare THEN 100 ELSE totalFare,
           isMinimumFare |-> isMinimumFare]

\* every state change re-renders the form: `const fareDetails = getFare()`
Render ==
  fareDetails' = getFare(distance', mumbaiLocalRates', booking'.tripType, booking'.carType)

StoreUnchanged == UNCHANGED storeVars

\* What a form handler run did: the distance request it resumed from with
\* the answer of the service, or the submit it handled with the insert it sent
\* and the link it opened (estimated prices, -1 for none), and its toasts.
FormEvent(op) ==
  [op |-> op, call |-> Null, ok |-> FALSE, result |-> Null, toasts |-> <<>>,
   logged |-> FALSE, disabled |-> FALSE, inserted |-> -1, message |-> -1]

NoFormEvent == FormEvent("none")

\* a step of the form that is neither a submit nor the end of an await
Quiet ==
  /\ formLast' = NoFormEvent
  /\ UNCHANGED <<saveCalls, dbBookings, opened>>

FormInit ==
  /\ booking = [customerName |-> "", customerPhone |-> <<>>, customerEmail |-> <<>>,
                pickup |-> "", drop |-> "", carType |-> "4-seater",
                tripType |-> "normal", date |-> "", time |-> ""]
  /\ saveCalls = EmptyBag
  /\ dbBookings = 0
  /\ opened = 0
  /\ formLast = NoFormEvent
  /\ pickupCoords = Null
  /\ dropCoords = Null
  /\ distance = 0
  /\ duration = 0
  /\ isCalculating = FALSE
  /\ formPricing = [mumbaiLocal |-> Null]
  /\ mumbaiLocalRates = Null
  /\ routeCalls = EmptyBag
  /\ fareDetails = Null

\* useAdmin(): the local-fare row arrives and becomes pricing.mumbaiLocal
useAdmin_loaded(data) ==
  /\ formPricing.mumbaiLocal = Null
  /\ formPricing' = [formPricing EXCEPT !.mumbaiLocal = data]
  /\ UNCHANGED <<booking, pickupCoords, dropCoords, distance, duration, isCalculating,
                 mumbaiLocalRates, routeCalls>>
  /\ Quiet
  /\ Render
  /\ StoreUnchanged

\* useEffect(..., [pricing])
mumbaiLocalRates_effect ==
  /\ formPricing.mumbaiLocal # Null
  /\ mumbaiLocalRates # formPricing.mumbaiLocal
  /\ mumbaiLocalRates' = formPricing.mumbaiLocal
  /\ UNCHANGED <<booking, pickupCoords, dropCoords, distance, duration, isCalculating,
                 formPricing, routeCalls>>
  /\ Quiet
  /\ Render
  /\ StoreUnchanged

handleFieldChange(field, value) ==
  /\ booking[field] # value
  /\ booking' = [booking EXCEPT ![field] = value]
  /\ UNCHANGED <<pickupCoords, dropCoords, distance, duration, isCalculating,
                 formPricing, mumbaiLocalRates, routeCalls>>
  /\ Quiet
  /\ Render
  /\ StoreUnchanged

\* calculateRouteDetails up to `await fetch(...)`
calculateRouteDetails(pickup, drop) ==
  /\ isCalculating' = TRUE
  /\ routeCalls' = routeCalls (+) SetToBag({[pickup |-> pickup, drop |-> drop]})

CanCalculate == BagCardinality(routeCalls) < MaxRouteCalls

handlePickupChange(value, coordinates) ==
  /\ booking' = [booking EXCEPT !.pickup = value]
  /\ IF coordinates # Null
       THEN /\ pickupCoords' = coordinates
            /\ IF dropCoords # Null
                 THEN CanCalculate /\ calculateRouteDetails(coordinates, dropCoords)
                 ELSE UNCHANGED <<isCalculating, routeCalls>>
       ELSE UNCHANGED <<pickupCoords, isCalculating, routeCalls>>
  /\ UNCHANGED <<dropCoords, distance, duration, formPricing, mumbaiLocalRates>>
  /\ Quiet
  /\ Render
  /\ StoreUnchanged

handleDropChange(value, coordinates) ==
  /\ booking' = [booking EXCEPT !.drop = value]
  /\ IF coordinates # Null
       THEN /\ dropCoords' = coordinates
            /\ IF pickupCoords # Null
                 THEN CanCalculate /\ calculateRouteDetails(pickupCoords, coordinates)
                 ELSE UNCHANGED <<isCalculating, routeCalls>>
       ELSE UNCHANGED <<dropCoords, isCalculating, routeCalls>>
  /\ UNCHANGED <<pickupCoords, distance, duration, formPricing, mumbaiLocalRates>>
  /\ Quiet
  /\ Render
  /\ StoreUnchanged

\* calculateRouteDetails with a catch block that only logs
calculateRouteDetails_settled_noFallback(c, ok, result) ==
  IF ok THEN result ELSE [distance |-> 0, duration |-> 0]

\* the distance and duration calculateRouteDetails sets after the await,
\* for a 2xx response carrying `result` (ok) or for any other outcome
calculateRouteDetails_settled(c, ok, result) ==
  IF ok
    THEN result
    ELSE LET straightDistance == calculateStraightLineDistance(c.pickup, c.drop)
         IN [distance |-> straightDistance,
             duration |-> MathRound(straightDistance * 3, 100)]

\* The distance service answers the request of c and the handler resumes.
\* The service keeps no state, so its answer is drawn when the handler resumes.
calculateRouteDetails_resume(c, ok, result) ==
  /\ distance' = calculateRouteDetails_settled(c, ok, result).distance
  /\ duration' = calculateRouteDetails_settled(c, ok, result).duration
  /\ isCalculating' = FALSE
  /\ routeCalls' = routeCalls (-) SetToBag({c})
  /\ UNCHANGED <<booking, pickupCoords, dropCoords, formPricing, mumbaiLocalRates>>
  /\ formLast' = [FormEvent("calculateRouteDetails") EXCEPT
                     !.call = c, !.ok = ok, !.result = result]
  /\ UNCHANGED <<saveCalls, dbBookings, opened>>
  /\ Render
  /\ StoreUnchanged


(***************************************************************************)
(* Submitting the booking.  Text typed into the phone and e-mail inputs is *)
(* a sequence of characters, so that the regular expressions are matched   *)
(* character by character.                                                 *)
(***************************************************************************)
Digits == {"0", "1", "2", "3", "4", "5", "6", "7", "8", "9"}
Whitespace == {" "}

TenDigits == <<"1", "2", "3", "4", "5", "6", "7", "8", "9", "0">>
FiveDigits == SubSeq(TenDigits, 1, 5)
Phones == {TenDigits, FiveDigits, FiveDigits \o <<"a", "b", "c", "d", "e">>,
           TenDigits \o <<"1">>}
Emails == {<<"a", "@", "b", ".", "c", "o">>, <<"a", "@", "b">>}

\* /\d{10}/ without the anchors: ten digits at the start of the input
isValidPhoneNumber_unanchored(phone) ==
  /\ Len(phone) >= 10
  /\ \A i \in 1..10 : phone[i] \in Digits

\* /^\d{10}$/.test(phone): ten characters of \d from the start of the input,
\* and the input ends there
isValidPhoneNumber(phone) ==
  /\ Len(phone) >= 10
  /\ \A i \in 1..10 : phone[i] \in Digits
  /\ Len(phone) = 10

\* [^\s@]+ matches the characters lo..hi of text
NoSpaceNoAt(text, lo, hi) ==
  /\ lo <= hi
  /\ \A i \in lo..hi : text[i] \notin Whitespace \union {"@"}

\* /^[^\s@]+@[^\s@]+\.[^\s@]+$/.test(email)
isValidEmail(email) ==
  \E at \in DOMAIN email, dot \in DOMAIN email :
    /\ email[at] = "@"
    /\ email[dot] = "."
    /\ NoSpaceNoAt(email, 1, at - 1)
    /\ NoSpaceNoAt(email, at + 1, dot - 1)
    /\ NoSpaceNoAt(email, dot + 1, Len(email))

\* `text || null`
OrNull(text) == [null |-> text = <<>>, value |-> text]

\* a save that sends the row without the price
saveBookingToDatabase_unpriced(b, fare) ==
  [customer_name |-> b.customerName,
   customer_phone |-> b.customerPhone,
   customer_email |-> OrNull(b.customerEmail),
   from_location |-> b.pickup,
   to_location |-> b.drop,
   car_type |-> b.carType,
   travel_date |-> b.date,
   travel_time |-> b.time,
   estimated_price |-> 0]

\* saveBookingToDatabase up to `await supabase.from('bookings').insert(...)`:
\* the row it sends
saveBookingToDatabase(b, fare) ==
  [customer_name |-> b.customerName,
   customer_phone |-> b.customerPhone,
   customer_email |-> OrNull(b.customerEmail),
   from_location |-> b.pickup,
   to_location |-> b.drop,
   car_type |-> b.carType,
   travel_date |-> b.date,
   travel_time |-> b.time,
   estimated_price |-> IF fare = Null THEN 0 ELSE fare.total]

\* saveBookingToDatabase after the await: `if (error) throw error; return true`
\* and the catch block that logs and returns false
saveBookingToDatabase_settled(error) ==
  [saved |-> error = NoError, logged |-> error # NoError]

\* a .then callback that ignores the result of the save
handleSubmit_then_silent(saved) == <<>>

\* .then(saved => { if (!saved) toast.error(...) })
handleSubmit_then(saved) ==
  IF ~saved THEN <<Toast("error", "Failed to save booking. Please try again.")>>
            ELSE <<>>

\* the checks of handleSubmit in their order; the first that fails decides
handleSubmit_validate(b, dist) ==
  IF \/ b.customerName = ""
     \/ b.customerPhone = <<>>
     \/ b.pickup = ""
     \/ b.drop = ""
     \/ b.date = ""
     \/ b.time = ""
    THEN <<Toast("error", "Please fill all required fields")>>
  ELSE IF ~isValidPhoneNumber(b.customerPhone)
    THEN <<Toast("error", "Please enter a valid 10-digit phone number.")>>
  ELSE IF b.customerEmail # <<>> /\ ~isValidEmail(b.customerEmail)
    THEN <<Toast("error", "Please enter a valid email address.")>>
  ELSE IF dist = 0
    THEN <<Toast("error", "Unable to calculate distance. Please check your locations.")>>
  ELSE <<>>

\* handleSubmit that sends the booking before it has checked the distance
handleSubmit_result_saveFirst(b, dist, rates) ==
  LET errors == handleSubmit_validate(b, dist)
      fare == getFare(dist, rates, b.tripType, b.carType)
      price == IF fare = Null THEN 0 ELSE fare.total
      early == errors # <<>> /\ errors[1][2] = "Unable to calculate distance. Please check your locations."
  IN IF errors # <<>>
       THEN [toasts |-> errors,
             insert |-> IF early THEN saveBookingToDatabase(b, fare) ELSE Null,
             opened |-> FALSE, message |-> -1]
       ELSE [toasts |-> <<Toast("success", "Redirecting to WhatsApp for booking confirmation")>>,
             insert |-> saveBookingToDatabase(b, fare),
             opened |-> TRUE,
             message |-> price]

\* What one run of handleSubmit does in the render that holds booking b,
\* distance dist and rates: its toasts, the row it sends to the bookings
\* table (Null for none), whether it opens the WhatsApp link and the
\* `fareDetails?.total || 0` it writes into the message (-1 for no message)
handleSubmit_result(b, dist, rates) ==
  LET errors == handleSubmit_validate(b, dist)
      fare == getFare(dist, rates, b.tripType, b.carType)
      price == IF fare = Null THEN 0 ELSE fare.total
  IN IF errors # <<>>
       THEN [toasts |-> errors, insert |-> Null, opened |-> FALSE, message |-> -1]
       ELSE [toasts |-> <<Toast("success", "Redirecting to WhatsApp for booking confirmation")>>,
             insert |-> saveBookingToDatabase(b, fare),
             opened |-> TRUE,
             message |-> price]

\* <button type="submit" disabled={distance === 0 || isCalculating || !mumbaiLocalRates}>
SubmitDisabled == distance = 0 \/ isCalculating \/ mumbaiLocalRates = Null

\* onSubmit={handleSubmit}
handleSubmit ==
  LET r == handleSubmit_result(booking, distance, mumbaiLocalRates)
  IN /\ r.opened => opened < MaxSubmits
     /\ saveCalls' = IF r.insert = Null THEN saveCalls
                                        ELSE saveCalls (+) SetToBag({r.insert})
     /\ opened' = IF r.opened THEN opened + 1 ELSE opened
     /\ formLast' = [FormEvent("handleSubmit") EXCEPT
                        !.toasts = r.toasts,
                        !.disabled = SubmitDisabled,
                        !.inserted = IF r.insert = Null THEN -1
                                                         ELSE r.insert.estimated_price,
                        !.message = r.message]
     /\ UNCHANGED <<booking, pickupCoords, dropCoords, distance, duration, isCalculating,
                    formPricing, mumbaiLocalRates, routeCalls, dbBookings>>
     /\ Render
     /\ StoreUnchanged

\* The bookings table answers the insert of c, with an error or by storing
\* the row, and saveBookingToDatabase and the .then callback run.
saveBookingToDatabase_resume(c, error) ==
  LET r == saveBookingToDatabase_settled(error)
  IN /\ saveCalls' = saveCalls (-) SetToBag({c})
     /\ dbBookings' = IF error = NoError THEN dbBookings + 1 ELSE dbBookings
     /\ formLast' = [FormEvent("saveBookingToDatabase") EXCEPT
                        !.ok = r.saved,
                        !.logged = r.logged,
                        !.toasts = handleSubmit_then(r.saved),
                        !.inserted = c.estimated_price]
     /\ UNCHANGED <<booking, pickupCoords, dropCoords, distance, duration, isCalculating,
                    formPricing, mumbaiLocalRates, routeCalls, opened>>
     /\ Render
     /\ StoreUnchanged


FormNext ==
  \/ \E data \in RateRows : useAdmin_loaded(data)
  \/ mumbaiLocalRates_effect
  \/ \E value \in TripTypes : handleFieldChange("tripType", value)
  \/ \E value \in CarTypes : handleFieldChange("carType", value)
  \/ \E place \in Places : handlePickupChange(place, Coordinates(place))
  \/ handlePickupChange("", Null)
  \/ \E place \in Places : handleDropChange(place, Coordinates(place))
  \/ handleDropChange("", Null)
  \/ \E c \in BagToSet(routeCalls) :
       \E ok \in BOOLEAN, result \in ApiResults : calculateRouteDetails_resume(c, ok, result)

(***************************************************************************)
(* The pricing store as a state machine.                                   *)
(***************************************************************************)
Ids(rows) == {rows[i].id : i \in DOMAIN rows}

StoreInit ==
  /\ lsAdmin = Null
  /\ lsPricing = Null
  /\ admin = Null
  /\ pricing = defaultPricing
  /\ calls = SetToBag({[Call("fetchCitiesAndRoutes") EXCEPT !.table = "cities"]})
               (+) SetToBag({[Call("fetchLocalFares") EXCEPT !.table = "local_fares"]})
  /\ fetchedLocal = FALSE
  /\ fetchedTables = FALSE
  /\ last = Event(Call("mount"), "void", <<>>)
  /\ dbCities = {City(1, "Pune")}
  /\ dbRoutes = {Route(2, "Nashik", "Pune", 2500, 3500)}
  /\ dbLocal = LocalFare(15, 18, 18, 22)
  /\ nextId = 3
  /\ ops = 0

Init == StoreInit /\ FormInit

Remote ==
  \/ \E c \in InFlight : RemoteFail(c)
  \/ \E c \in InFlight : RemoteSelectCities(c)
  \/ \E c \in InFlight : RemoteSelectRoutes(c)
  \/ \E c \in InFlight : RemoteSelectLocalFare(c)
  \/ \E c \in InFlight : RemoteInsertCity(c)
  \/ \E c \in InFlight : RemoteDeleteCity(c)
  \/ \E c \in InFlight : RemoteInsertRoute(c)
  \/ \E c \in InFlight : RemoteUpdateRoute(c)
  \/ \E c \in InFlight : RemoteDeleteRoute(c)

Resumed ==
  \/ \E c \in InFlight : fetchCitiesAndRoutes_resume_cities(c)
  \/ \E c \in InFlight : fetchCitiesAndRoutes_resume(c)
  \/ \E c \in InFlight : fetchLocalFares_resume(c)
  \/ \E c \in InFlight : addCity_resume(c)
  \/ \E c \in InFlight : removeCity_resume(c)
  \/ \E c \in InFlight : addRoute_resume(c)
  \/ \E c \in InFlight : updateRoute_resume(c)
  \/ \E c \in InFlight : deleteRoute_resume(c)

Called ==
  \/ fetchCitiesAndRoutes
  \/ fetchLocalFares
  \/ \E cityName \in Names : addCity(cityName)
  \/ \E cityId \in Ids(pricing.cities) : removeCity(cityId)
  \/ \E pair \in RoutePairs, fare \in Fares : addRoute(pair[1], pair[2], fare[1], fare[2])
  \/ \E routeId \in Ids(pricing.routes), fare \in Fares : updateRoute(routeId, fare[1], fare[2])
  \/ \E routeId \in Ids(pricing.routes) : deleteRoute(routeId)
  \/ \E row \in RateRows : updatePricing([pricing EXCEPT !.mumbaiLocal = row])
  \/ \E username \in Usernames, password \in Passwords : login(username, password)
  \/ logout
  \/ Mount

Next == Remote \/ Resumed \/ Called

Spec == Init /\ [][Next]_vars

SpecForm == Init /\ [][FormNext]_vars

\* The booking form from typing the customer's details to the hand-off.
SubmitNext ==
  \/ useAdmin_loaded(LocalFare(15, 20, 18, 25))
  \/ mumbaiLocalRates_effect
  \/ handleFieldChange("customerName", "Asha")
  \/ \E value \in Phones : handleFieldChange("customerPhone", value)
  \/ \E value \in Emails : handleFieldChange("customerEmail", value)
  \/ handleFieldChange("date", "2025-01-01")
  \/ handleFieldChange("time", "10:00")
  \/ handlePickupChange("Andheri", Coordinates("Andheri"))
  \/ handleDropChange("Airport", Coordinates("Airport"))
  \/ \E c \in BagToSet(routeCalls) :
       \E ok \in BOOLEAN : calculateRouteDetails_resume(c, ok, [distance |-> 4000, duration |-> 75])
  \/ handleSubmit
  \/ \E c \in BagToSet(saveCalls), error \in {NoError, Failure} :
       saveBookingToDatabase_resume(c, error)

SpecSubmit == Init /\ [][SubmitNext]_vars

TypeOK ==
  /\ admin \in {Null, adminUser}
  /\ BagCardinality(calls) <= MaxCalls
  /\ nextId <= MaxId + 1

(***************************************************************************)
(* Properties.                                                             *)
(***************************************************************************)
Max(a, b) == IF a >= b THEN a ELSE b

Mutations == {"addCity", "removeCity", "addRoute", "updateRoute", "deleteRoute"}

\* the last step completed a call of handler op; done.call is the settled call
Done(e, op) == e.call.op = op /\ e.call.stage = "settled" /\ e.ret # "pending"

ErrorToasts(e) == SelectSeq(e.toasts, LAMBDA t : t[1] = "error")

\* C1: whenever the form holds a distance > 0 and a loaded rate row, the fare
\* of the render is total = max(100, round(distance * ratePerKm)) and
\* isMinimumFare = (round(distance * ratePerKm) < 100), for the rate getFare
\* picked.
C1_FareFloor ==
  (distance > 0 /\ mumbaiLocalRates # Null) =>
    /\ fareDetails # Null
    /\ fareDetails.total = Max(100, MathRound(distance * fareDetails.ratePerKm, 100))
    /\ fareDetails.isMinimumFare = (MathRound(distance * fareDetails.ratePerKm, 100) < 100)

C1_Witness ==
  /\ distance = 270
  /\ mumbaiLocalRates # Null
  /\ fareDetails # Null
  /\ fareDetails.isMinimumFare
  /\ fareDetails.total = 100

\* C2: a step changes the in-memory pricing only when it completes a city or
\* route mutation whose remote request returned without error, completes a
\* load whose selects returned without error, is updatePricing, or is the
\* mount of a fresh provider.
C2_NoOptimisticWrite ==
  [][pricing' # pricing =>
       \/ /\ last'.call.op \in Mutations
          /\ last'.call.stage = "settled"
          /\ last'.call.error = NoError
          /\ last'.ret = "true"
       \/ /\ last'.call.op \in {"fetchCitiesAndRoutes", "fetchLocalFares"}
          /\ last'.call.stage = "settled"
          /\ last'.call.error = NoError
       \/ last'.call.op \in {"updatePricing", "mount"}]_vars

C2_Witness ==
  /\ Done(last, "removeCity")
  /\ last.call.error # NoError
  /\ last.call.id \in Ids(pricing.cities)

\* C3: the in-memory cities never hold a name twice and the in-memory routes
\* never hold a (from_city, to_city) pair twice.
C3_NoDuplicates ==
  /\ \A i, j \in DOMAIN pricing.cities :
       pricing.cities[i].name = pricing.cities[j].name => i = j
  /\ \A i, j \in DOMAIN pricing.routes :
       (/\ pricing.routes[i].from_city = pricing.routes[j].from_city
        /\ pricing.routes[i].to_city = pricing.routes[j].to_city) => i = j

\* C4: a load in which exactly one fetch fails reports one error, leaves the
\* slice of the failed fetch as it was and sets every slice whose fetch
\* succeeded to the fetched rows.
C4_IndependentFetches ==
  [][/\ (Done(last', "fetchCitiesAndRoutes") /\ last'.call.table = "cities"
           /\ last'.call.error # NoError) =>
          (Len(ErrorToasts(last')) = 1 /\ pricing'.cities = pricing.cities)
     /\ (Done(last', "fetchCitiesAndRoutes") /\ last'.call.table = "routes"
           /\ last'.call.error # NoError) =>
          /\ Len(ErrorToasts(last')) = 1
          /\ pricing'.routes = pricing.routes
          /\ pricing'.cities = last'.call.cities
          /\ pricing'.mumbaiLocal = pricing.mumbaiLocal
     /\ (Done(last', "fetchLocalFares") /\ last'.call.error # NoError) =>
          (Len(ErrorToasts(last')) = 1 /\ pricing' = pricing)]_vars

\* C5: while no local-fare fetch has succeeded since the provider mounted, the
\* in-memory local rates are those of the snapshot in local storage, if there
\* is one: the snapshot survives a restart with the remote store unreachable.
C5_SnapshotRestored ==
  (lsPricing # Null /\ ~fetchedLocal) => pricing.mumbaiLocal = lsPricing.mumbaiLocal

\* C6: an addCity whose insert fails returns false and leaves the in-memory
\* cities as they were; it raises 'City already exists' for the
\* unique-constraint error 23505 and 'Failed to add city' for any other.
C6_AddCityFailure ==
  [][(Done(last', "addCity") /\ last'.call.error # NoError) =>
       /\ last'.ret = "false"
       /\ pricing' = pricing
       /\ last'.toasts =
            IF last'.call.error = Conflict
              THEN <<Toast("error", "City already exists")>>
              ELSE <<Toast("error", "Failed to add city")>>]_vars

C6_Witness ==
  /\ Done(last, "addCity")
  /\ last.call.error = Conflict
  /\ last.toasts = <<Toast("error", "City already exists")>>
  /\ \E i \in DOMAIN pricing.cities : pricing.cities[i].name = last.call.name

\* C7: an addRoute whose insert hits the unique constraint raises 'Route
\* already exists', returns false and leaves the in-memory routes as they
\* were; one whose insert succeeds returns true and appends exactly one route,
\* carrying the pair and the prices of the call.
C7_AddRoute ==
  [][Done(last', "addRoute") =>
       LET c == last'.call IN
       /\ c.error = Conflict =>
            /\ last'.toasts = <<Toast("error", "Route already exists")>>
            /\ last'.ret = "false"
            /\ pricing' = pricing
       /\ c.error = NoError =>
            /\ last'.ret = "true"
            /\ Len(pricing'.routes) = Len(pricing.routes) + 1
            /\ SubSeq(pricing'.routes, 1, Len(pricing.routes)) = pricing.routes
            /\ LET r == pricing'.routes[Len(pricing'.routes)] IN
                 /\ r.from_city = c.from_city /\ r.to_city = c.to_city
                 /\ r.price_4_seater = c.price_4_seater
                 /\ r.price_6_seater = c.price_6_seater
            /\ pricing'.cities = pricing.cities]_vars

C7_Witness ==
  /\ Done(last, "addRoute")
  /\ last.call.error = NoError
  /\ Len(pricing.routes) >= 2

\* C8: a successful updateRoute keeps the length and the order of the
\* in-memory routes, changes nothing but the two prices of the route with the
\* id of the call, and a failed updateRoute changes nothing.
C8_UpdateRouteFrame ==
  [][Done(last', "updateRoute") =>
       LET c == last'.call IN
       IF c.error = NoError
         THEN /\ DOMAIN pricing'.routes = DOMAIN pricing.routes
              /\ \A i \in DOMAIN pricing.routes :
                   pricing'.routes[i] =
                     IF pricing.routes[i].id = c.id
                       THEN [pricing.routes[i] EXCEPT
                               !.price_4_seater = c.price_4_seater,
                               !.price_6_seater = c.price_6_seater]
                       ELSE pricing.routes[i]
              /\ pricing'.cities = pricing.cities
              /\ pricing'.mumbaiLocal = pricing.mumbaiLocal
         ELSE pricing' = pricing]_vars

C8_Witness ==
  /\ Done(last, "updateRoute")
  /\ last.call.error = NoError
  /\ \E i \in DOMAIN pricing.routes :
       /\ pricing.routes[i].id = last.call.id
       /\ pricing.routes[i].price_4_seater = 2700
       /\ pricing.routes[i].from_city = "Nashik"

\* C9: removeCity and deleteRoute drop the entries with the id of the call
\* from the in-memory list exactly when the remote delete returned without
\* error, and then return true; when it failed the list is as it was and they
\* return false.
C9_RemoveOnSuccessOnly ==
  [][/\ Done(last', "removeCity") =>
          IF last'.call.error = NoError
            THEN /\ pricing'.cities =
                      SelectSeq(pricing.cities, LAMBDA x : x.id # last'.call.id)
                 /\ last'.ret = "true"
            ELSE /\ pricing'.cities = pricing.cities
                 /\ last'.ret = "false"
     /\ Done(last', "deleteRoute") =>
          IF last'.call.error = NoError
            THEN /\ pricing'.routes =
                      SelectSeq(pricing.routes, LAMBDA x : x.id # last'.call.id)
                 /\ last'.ret = "true"
            ELSE /\ pricing'.routes = pricing.routes
                 /\ last'.ret = "false"]_vars

C9_Witness ==
  /\ Done(last, "deleteRoute")
  /\ last.call.error # NoError
  /\ last.call.id \in Ids(pricing.routes)

\* C10: a completed addCity, removeCity, addRoute, updateRoute or deleteRoute
\* has returned true or false, never thrown: true exactly when the remote
\* request reported no error, and false with exactly one error toast.
C10_BooleanResult ==
  \A op \in Mutations :
    Done(last, op) =>
      /\ last.ret \in {"true", "false"}
      /\ last.ret = "true" <=> last.call.error = NoError
      /\ last.ret = "false" => (Len(last.toasts) = 1 /\ Len(ErrorToasts(last)) = 1)
      /\ last.ret = "true" => ErrorToasts(last) = <<>>

C10_Witness ==
  /\ Done(last, "updateRoute")
  /\ last.call.error = NoRows
  /\ last.ret = "false"

\* the rate field getFare is to read for a trip type and a car type
RateField(rates, trip, car) ==
  CASE trip = "normal" /\ car = "4-seater" -> rates.normal_4_seater_rate_per_km
    [] trip = "normal" /\ car = "6-seater" -> rates.normal_6_seater_rate_per_km
    [] trip = "airport" /\ car = "4-seater" -> rates.airport_4_seater_rate_per_km
    [] trip = "airport" /\ car = "6-seater" -> rates.airport_6_seater_rate_per_km

\* C11: the fare of the render carries the rate of the field that the
\* (tripType, carType) pair selects; with rates {15, 18, 18, 22} and 40 km it
\* is 15 and 600 for a normal 4-seater trip and 18 and 720 for an airport
\* 4-seater trip, without the minimum fare.
C11_RateLookup ==
  fareDetails # Null =>
    /\ fareDetails.ratePerKm = RateField(mumbaiLocalRates, booking.tripType, booking.carType)
    /\ (/\ mumbaiLocalRates = LocalFare(15, 18, 18, 22)
        /\ distance = 4000
        /\ booking.carType = "4-seater") =>
         fareDetails = IF booking.tripType = "normal"
                         THEN [ratePerKm |-> 15, total |-> 600, isMinimumFare |-> FALSE]
                         ELSE [ratePerKm |-> 18, total |-> 720, isMinimumFare |-> FALSE]

C11_Witness ==
  /\ mumbaiLocalRates = LocalFare(15, 20, 18, 25)
  /\ distance = 4000
  /\ booking.tripType = "airport" /\ booking.carType = "4-seater"
  /\ fareDetails # Null
  /\ fareDetails.ratePerKm = 18 /\ fareDetails.total = 720

\* C12: the fare of the render is absent exactly when the distance is 0 or the
\* local rates are not loaded, and a render raises no toast.
C12_AbsentFare ==
  /\ fareDetails = Null <=> (distance = 0 \/ mumbaiLocalRates = Null)
  /\ formLast.op # "handleSubmit" /\ formLast.op # "saveBookingToDatabase" =>
       formLast.toasts = <<>>

C12_Witness ==
  /\ formLast.op = "calculateRouteDetails"
  /\ distance = 270
  /\ mumbaiLocalRates = Null
  /\ fareDetails = Null

\* the step in which calculateRouteDetails resumes, with what it must have set
RouteDetailsSet(fallbackDuration(_)) ==
  formLast'.op = "calculateRouteDetails" =>
    LET e == formLast'
        straight == calculateStraightLineDistance(e.call.pickup, e.call.drop)
    IN /\ e.toasts = <<>>
       /\ routeCalls' = routeCalls (-) SetToBag({e.call})
       /\ e.ok => distance' = e.result.distance /\ duration' = e.result.duration
       /\ ~e.ok => distance' = straight /\ fallbackDuration(straight)

\* C13 as stated: after a failed distance request, the duration is the
\* straight-line distance (km) times 3.
C13_FallbackExact ==
  [][RouteDetailsSet(LAMBDA straight : 100 * duration' = straight * 3)]_vars

\* C13: after a failed distance request, calculateRouteDetails sends no other
\* request, raises no toast, sets the distance to the straight-line distance
\* of its coordinates and the duration to Math.round(distance * 3); after a
\* 2xx response it sets the distance and the duration of the response.
C13_Fallback ==
  [][RouteDetailsSet(LAMBDA straight : duration' = MathRound(straight * 3, 100))]_vars

C13_Witness ==
  /\ formLast.op = "calculateRouteDetails"
  /\ ~formLast.ok
  /\ distance = 270
  /\ duration = 8

\* text consists of exactly ten decimal digits
TenDecimalDigits(text) == Len(text) = 10 /\ \A i \in DOMAIN text : text[i] \in Digits

\* the reasons to block a submit that hold of the booking and distance shown,
\* each as its notification
BlockReasons ==
  {m \in {"Please fill all required fields",
          "Please enter a valid 10-digit phone number.",
          "Please enter a valid email address.",
          "Unable to calculate distance. Please check your locations."} :
     \/ /\ m = "Please fill all required fields"
        /\ \/ booking.customerName = "" \/ booking.customerPhone = <<>>
           \/ booking.pickup = "" \/ booking.drop = ""
           \/ booking.date = "" \/ booking.time = ""
     \/ /\ m = "Please enter a valid 10-digit phone number."
        /\ ~TenDecimalDigits(booking.customerPhone)
     \/ /\ m = "Please enter a valid email address."
        /\ booking.customerEmail # <<>> /\ ~isValidEmail(booking.customerEmail)
     \/ /\ m = "Unable to calculate distance. Please check your locations."
        /\ distance = 0}

\* C14: a submit of a booking with a missing required field, a phone that is
\* not ten digits, a non-empty malformed e-mail or distance 0 raises exactly
\* one error notification, the one of a reason that holds, sends no insert to
\* the bookings table and opens no link.
C14_Blocked ==
  [][(formLast'.op = "handleSubmit" /\ BlockReasons # {}) =>
       /\ Len(formLast'.toasts) = 1
       /\ formLast'.toasts[1][1] = "error"
       /\ formLast'.toasts[1][2] \in BlockReasons
       /\ formLast'.inserted = -1 /\ formLast'.message = -1
       /\ UNCHANGED <<saveCalls, dbBookings, opened>>]_vars

C14_Witness ==
  /\ formLast.op = "handleSubmit"
  /\ distance = 0
  /\ booking.customerEmail = <<"a", "@", "b", ".", "c", "o">>
  /\ formLast.toasts =
       <<Toast("error", "Unable to calculate distance. Please check your locations.")>>
  /\ saveCalls = EmptyBag /\ opened = 0

\* C15: a submit that passes validation opens the link exactly once and sends
\* one insert; nothing else opens the link.  When the insert fails, the
\* failure is logged and notified with 'Failed to save booking...', no row is
\* stored and the hand-off stays; when it succeeds one row is stored.
C15_HandOff ==
  [][/\ opened' # opened => formLast'.op = "handleSubmit"
     /\ (formLast'.op = "handleSubmit" /\ BlockReasons = {}) =>
          /\ opened' = opened + 1
          /\ BagCardinality(saveCalls') = BagCardinality(saveCalls) + 1
          /\ dbBookings' = dbBookings
     /\ formLast'.op = "saveBookingToDatabase" =>
          /\ opened' = opened
          /\ BagCardinality(saveCalls') = BagCardinality(saveCalls) - 1
          /\ formLast'.ok =>
               /\ dbBookings' = dbBookings + 1
               /\ formLast'.toasts = <<>>
          /\ ~formLast'.ok =>
               /\ dbBookings' = dbBookings
               /\ formLast'.logged
               /\ formLast'.toasts =
                    <<Toast("error", "Failed to save booking. Please try again.")>>]_vars

\* handed off and not persisted
C15_Witness ==
  /\ formLast.op = "saveBookingToDatabase" /\ ~formLast.ok
  /\ opened = 1
  /\ dbBookings = 0
  /\ saveCalls = EmptyBag

\* C18: isValidPhoneNumber accepts a text exactly when it consists of ten
\* decimal digits: '1234567890' is valid, '12345' and '12345abcde' are not,
\* nor is a text of another length or with a character that is no digit.
C18_TenDigits ==
  /\ isValidPhoneNumber(booking.customerPhone) <=> TenDecimalDigits(booking.customerPhone)
  /\ isValidPhoneNumber(TenDigits)
  /\ ~isValidPhoneNumber(FiveDigits)
  /\ ~isValidPhoneNumber(FiveDigits \o <<"a", "b", "c", "d", "e">>)
  /\ (/\ formLast.op = "handleSubmit"
      /\ formLast.toasts = <<Toast("error", "Please enter a valid 10-digit phone number.")>>)
       => ~TenDecimalDigits(booking.customerPhone)

C18_Witness ==
  /\ formLast.op = "handleSubmit"
  /\ booking.customerPhone = TenDigits \o <<"1">>
  /\ formLast.toasts = <<Toast("error", "Please enter a valid 10-digit phone number.")>>

\* C16: in every reachable state the in-memory cities are in the order of
\* their names and the in-memory routes in the order of (from_city, to_city).
C16_Ordered ==
  /\ \A i, j \in DOMAIN pricing.cities :
       i < j => NameRank(pricing.cities[i].name) <= NameRank(pricing.cities[j].name)
  /\ \A i, j \in DOMAIN pricing.routes :
       i < j =>
         \/ NameRank(pricing.routes[i].from_city) < NameRank(pricing.routes[j].from_city)
         \/ /\ pricing.routes[i].from_city = pricing.routes[j].from_city
            /\ NameRank(pricing.routes[i].to_city) <= NameRank(pricing.routes[j].to_city)

\* C17: login returns success and sets the admin session, in memory and in
\* local storage, exactly when the username is 'admin' and the password is
\* 'admin123'; for any other pair it returns failure with an error and leaves
\* the in-memory admin and the stored session as they were.
C17_Login ==
  [][last'.call.op = "login" =>
       LET fixedPair == last'.call.name = "admin" /\ last'.call.data = <<"admin123">>
       IN /\ last'.ret = "true" <=> fixedPair
          /\ last'.ret \in {"true", "false"}
          /\ fixedPair =>
               /\ admin' = adminUser /\ lsAdmin' = adminUser
               /\ last'.call.error = ""
          /\ ~fixedPair =>
               /\ last'.call.error = "Invalid admin credentials"
               /\ UNCHANGED <<admin, lsAdmin>>]_vars

\* a failed login after a successful one keeps the session
C17_Witness ==
  /\ last.call.op = "login" /\ last.ret = "false"
  /\ last.call.name = "admin" /\ last.call.data = <<"letmein">>
  /\ admin = adminUser /\ lsAdmin = adminUser

\* the cities and routes that the handler run e writes over prev
Written(e, prev) ==
  LET c == e.call
      cities == CASE c.op = "fetchCitiesAndRoutes" -> c.cities
                  [] c.op = "addCity" -> Append(prev.cities, c.data[1])
                  [] c.op = "removeCity" -> SelectSeq(prev.cities, LAMBDA x : x.id # c.id)
                  [] OTHER -> prev.cities
      routes == CASE c.op = "fetchCitiesAndRoutes" -> c.data
                  [] c.op = "addRoute" -> Append(prev.routes, c.data[1])
                  [] c.op = "updateRoute" ->
                       [i \in DOMAIN prev.routes |->
                          IF prev.routes[i].id = c.id THEN c.data[1] ELSE prev.routes[i]]
                  [] c.op = "deleteRoute" -> SelectSeq(prev.routes, LAMBDA x : x.id # c.id)
                  [] OTHER -> prev.routes
  IN <<cities, routes>>

\* the handler run e ends a load or a mutation that succeeded
Writes(e) ==
  \/ Done(e, "fetchCitiesAndRoutes") /\ e.call.table = "routes" /\ e.call.error = NoError
  \/ \E op \in Mutations : Done(e, op) /\ e.ret = "true"

\* C19: no guard rejects the write of a load or of a mutation that succeeded,
\* whatever was written since it started: the in-memory cities and routes
\* after the write are the value it writes, and nothing but such a write, a
\* page load or updatePricing changes them, so that after an overlap the
\* slice holds the value of the write applied last.
C19_LastWriteWins ==
  [][/\ Writes(last') => <<pricing'.cities, pricing'.routes>> = Written(last', pricing)
     /\ <<pricing'.cities, pricing'.routes>> # <<pricing.cities, pricing.routes>> =>
          \/ Writes(last')
          \/ last'.call.op \in {"mount", "updatePricing"}]_vars

\* the load that started before addCity wrote has overwritten its city
C19_Witness ==
  /\ Writes(last) /\ last.call.op = "fetchCitiesAndRoutes"
  /\ \A c \in BagToSet(calls) : c.op = "fetchLocalFares"
  /\ ops = 1
  /\ \E row \in dbCities : row.id \notin Ids(pricing.cities)

\* the rows of a sequence, each with the number of times it occurs
Rows(rows) == [row \in {rows[i] : i \in DOMAIN rows} |->
                 Cardinality({i \in DOMAIN rows : rows[i] = row})]

\* C20: whenever no request is in flight, a load has succeeded since the page
\* loaded and updatePricing has not been called, the in-memory cities and
\* routes hold exactly the rows of the remote tables, each once.
C20_MirrorsRemote ==
  (calls = EmptyBag /\ fetchedTables /\ lsPricing = Null) =>
     /\ Rows(pricing.cities) = [row \in dbCities |-> 1]
     /\ Rows(pricing.routes) = [row \in dbRoutes |-> 1]

\* the fare breakdown is rendered: distance > 0 && !isCalculating && fareDetails
BreakdownShown == distance > 0 /\ ~isCalculating /\ fareDetails # Null

\* C21: while a calculateRouteDetails request is in flight, isCalculating is
\* true, so that the fare breakdown is hidden and the submit button is
\* disabled, also when a second calculation started before the first settled.
C21_CalculatingWhileInFlight ==
  routeCalls # EmptyBag =>
    /\ isCalculating
    /\ ~BreakdownShown
    /\ SubmitDisabled

\* C22: once every started distance calculation has settled, the distance and
\* duration stored last are those computed for the current pickup and drop
\* coordinates, whatever the order of the responses.
C22_CurrentRoute ==
  (routeCalls = EmptyBag /\ formLast.op = "calculateRouteDetails") =>
    /\ formLast.call = [pickup |-> pickupCoords, drop |-> dropCoords]
    /\ ~formLast.ok =>
         distance = calculateStraightLineDistance(pickupCoords, dropCoords)

\* C23: a booking handed off by a submit made while the button is enabled
\* (distance not 0, no calculation running, rates loaded) carries the total
\* of the fare shown at the submit, which is at least 100, and the insert of
\* the same submit carries the same price; none carries price 0.
C23_PricedHandOff ==
  [][(formLast'.op = "handleSubmit" /\ ~formLast'.disabled /\ opened' # opened) =>
       /\ fareDetails # Null
       /\ formLast'.message = fareDetails.total
       /\ formLast'.message >= 100
       /\ formLast'.inserted = formLast'.message
       /\ \E c \in BagToSet(saveCalls') :
            /\ c.estimated_price = formLast'.message
            /\ CopiesIn(c, saveCalls') = CopiesIn(c, saveCalls) + 1]_vars

C23_Witness ==
  /\ formLast.op = "handleSubmit" /\ ~formLast.disabled
  /\ opened = 1
  /\ formLast.message = 600 /\ formLast.inserted = 600
  /\ fareDetails.isMinimumFare = FALSE

\* C24: each store operation changes only its own slice of the pricing:
\* addCity and removeCity leave routes and mumbaiLocal, the route mutations
\* leave cities and mumbaiLocal, fetchCitiesAndRoutes leaves mumbaiLocal,
\* fetchLocalFares leaves cities and routes, login and logout leave all of
\* it, and so does every step in which a handler only sends a request.
C24_Frame ==
  [][LET op == last'.call.op
     IN /\ op \in {"addCity", "removeCity"} =>
             pricing'.routes = pricing.routes /\ pricing'.mumbaiLocal = pricing.mumbaiLocal
        /\ op \in {"addRoute", "updateRoute", "deleteRoute"} =>
             pricing'.cities = pricing.cities /\ pricing'.mumbaiLocal = pricing.mumbaiLocal
        /\ op = "fetchCitiesAndRoutes" => pricing'.mumbaiLocal = pricing.mumbaiLocal
        /\ op = "fetchLocalFares" =>
             pricing'.cities = pricing.cities /\ pricing'.routes = pricing.routes
        /\ op \in {"login", "logout", "none"} => pricing' = pricing]_vars

\* the local rates arrive after the cities and a city added meanwhile
C24_Witness ==
  /\ Done(last, "fetchLocalFares") /\ last.call.error = NoError
  /\ pricing.mumbaiLocal = dbLocal
  /\ Len(pricing.cities) = 2

\* C25: the in-memory admin is present exactly when the session record is in
\* local storage: login with the fixed pair sets both, logout clears both, a
\* page load restores the admin from the record, and nothing but logout ends
\* a session.
C25_Session ==
  [][/\ admin = lsAdmin /\ admin' = lsAdmin'
     /\ (last'.call.op = "login" /\ last'.ret = "true") => admin' = adminUser
     /\ last'.call.op = "logout" => admin' = Null
     /\ last'.call.op = "mount" => admin' = lsAdmin /\ lsAdmin' = lsAdmin
     /\ (admin # Null /\ admin' = Null) => last'.call.op = "logout"]_vars

\* a session restored by a page load
C25_Witness ==
  /\ last.call.op = "mount"
  /\ ops > 0
  /\ admin = adminUser /\ lsAdmin = adminUser

=============================================================================
